---- MODULE Spec2Model ----
(***************************************************************************)
(* traxiv: preprints of a publisher are retrieved from bioRxiv, a          *)
(* hypothes.is post linking to the review process file (RPF) of the        *)
(* published paper is prepared for each, cached in a MongoDB collection    *)
(* (one per hypothes.is group) and finally posted on hypothes.is.          *)
(*                                                                         *)
(* Spec      : runs of Traxiv.post_all (src/src/traxiv.py), one process    *)
(*             per run, which may be interrupted at any step.              *)
(* LiveSpec  : Spec, where a process that is not stopped runs on and the   *)
(*             pipeline is started again and again.                        *)
(* StoreSpec : arbitrary calls of the MongoPreprints API (src/src/db.py).  *)
(* BiorxivSpec : runs of biorxiv.main (src/src/biorxiv.py): retrieve, page *)
(*             by page, then details, record by record.                    *)
(* LinkSpec  : generate_rpf_link (src/src/rpf.py) on drawn inputs.         *)
(* PurgeSpec : Spec, with runs of purge.main (src/src/purge.py) between    *)
(*             the runs of the pipeline.                                   *)
(* WorkersSpec : two processes calling MongoPreprints.insert on the same   *)
(*             collection, their database requests interleaved.            *)
(***************************************************************************)
EXTENDS Integers, Sequences, FiniteSets, TLC

VARIABLES
    db,           \* MongoDB database: groupid -> collection (a list of documents)
    hypothesis,   \* the annotations live on hypothes.is
    group,        \* MongoPreprints.group: the bound collection, or "None"
    pc,           \* where the running process is: idle, retrieve, update, post, posted
    groupid,      \* post_all: the id of the group of this run
    journals,     \* post_all: the requested journals
    preprints,    \* post_all: the preprints retrieved from bioRxiv
    i,            \* the loop index of update() and of post()
    not_updated,  \* update(): the records that were not updated
    rows,         \* post(): the result of not_yet_posted()
    response,     \* post(): the response of post_one()
    updated,      \* post(): the counter returned
    faults,       \* how many faults (interruptions, failed requests) happened so far
    failed,       \* the (group, preprint) pairs whose posting was refused at least once
    trace,        \* what the last step did: the calls it made, what it returned
    outcome,      \* how the last process ended
    at,           \* where biorxiv.main is: none, retrieve, retrieved, details, detailed
    cursor,       \* retrieve(): the cursor of the next request
    remaining,    \* retrieve(): what the loop tests
    results,      \* retrieve(): the preprints received; details(): the list enriched
    requested,    \* retrieve(): the cursors of the requests made, in order
    workers       \* the processes that call insert() on one collection: where each is

vars == <<db, hypothesis, group, pc, groupid, journals, preprints, i, not_updated,
          rows, response, updated, faults, failed, trace, outcome,
          at, cursor, remaining, results, requested, workers>>

-----------------------------------------------------------------------------
(* Bounds *)

\* the longest list of preprints a run retrieves
MaxBatch == 2

\* the number of faults (interruptions, exceptions, refused posts) over all runs
MaxFaults == 1

\* the largest number of items bioRxiv puts in one page
MaxCount == 2

\* the largest total bioRxiv reports
MaxTotal == 3

\* the number of requests of retrieve() that are followed
MaxRequests == 3

\* the number of calls of insert() each worker makes
MaxCalls == 2

-----------------------------------------------------------------------------
(* The outside world *)

\* two preprints as listed by bioRxiv (the fields update() and post() read)
Catalog ==
    { [biorxiv_doi |-> "10.1101/001", published_doi |-> "10.15252/embj.2019102578",
       preprint_title |-> "T1", preprint_category |-> "cell biology"],
      [biorxiv_doi |-> "10.1101/002", published_doi |-> "10.26508/lsa.201900445",
       preprint_title |-> "T2", preprint_category |-> "genetics"] }

DOIs == {p.biorxiv_doi : p \in Catalog}

\* journal names as CrossRef may return them
JournalNames == {"The EMBO Journal", "Life Science Alliance", "embo reports", "Nature"}

\* the journal lists a run may be asked for
JournalLists == { <<"The EMBO Journal", "Life Science Alliance">>,
                  <<"The EMBO Journal", "embo reports">> }

\* the groups listed by hypothes.is for the user
GroupList == << [name |-> "EMBO Press", id |-> "g1"] >>

\* the group names the runs are started with
GroupNames == {"EMBO Press", "no such group"}

\* the collections of the database
GroupIds == {"g1", "__world__"}

None == "None"

\* the processes that share a collection
Workers == {"w1", "w2"}

\* a process that is in no call of insert()
Idle == [pc |-> "idle", doi |-> "", pre_existing |-> FALSE, calls |-> 0, done |-> {}]

EmptyDict == [k \in {} |-> ""]

\* x in xs, for a Python list
InList(x, xs) == \E k \in 1..Len(xs) : xs[k] = x

\* the lists of length at most n over the set S
ListsUpTo(S, n) == UNION {[1..m -> S] : m \in 0..n}

-----------------------------------------------------------------------------
(* src/src/toolbox.py: the records and their serialisation *)

Preprint(p, url) ==
    [biorxiv_doi |-> p.biorxiv_doi, biorxiv_url |-> url,
     published_doi |-> p.published_doi, preprint_title |-> p.preprint_title,
     preprint_category |-> p.preprint_category]

PublishedWithRPF(doi, journal, rpf) ==
    [doi |-> doi, journal |-> journal, rpf |-> rpf]

HypoPost(annotation_text, tags, hypothesis_id) ==
    [annotation_text |-> annotation_text, tags |-> tags, hypothesis_id |-> hypothesis_id]

-----------------------------------------------------------------------------
(* src/src/db.py: MongoPreprints, on one collection coll *)

find_one_wrong_field(coll, doi) ==
    LET hits == SelectSeq(coll, LAMBDA e : e.preprint.published_doi = doi)
    IN  IF hits = <<>> THEN <<>> ELSE <<hits[1]>>

\* the first document of the preprint, as a list of zero or one document
find_one(coll, doi) ==
    LET hits == SelectSeq(coll, LAMBDA e : e.preprint.biorxiv_doi = doi)
    IN  IF hits = <<>> THEN <<>> ELSE <<hits[1]>>

exists_never(coll, doi) == FALSE

exists(coll, doi) == find_one(coll, doi) # <<>>

\* self.group.insert_one(document)
insert_one(coll, document) == Append(coll, document)

insert_replace(coll, preprint, paper, hypo_post) ==
    IF ~ exists(coll, preprint.biorxiv_doi)
    THEN [coll |-> Append(coll, [preprint |-> preprint, paper |-> paper, annotation |-> hypo_post]),
          ret |-> "InsertOneResult"]
    ELSE [coll |-> [k \in 1..Len(coll) |->
                      IF coll[k].preprint.biorxiv_doi = preprint.biorxiv_doi
                      THEN [preprint |-> preprint, paper |-> paper, annotation |-> hypo_post]
                      ELSE coll[k]],
          ret |-> None]

insert(coll, preprint, paper, hypo_post) ==
    IF ~ exists(coll, preprint.biorxiv_doi)
    THEN [coll |-> Append(coll, [preprint |-> preprint, paper |-> paper, annotation |-> hypo_post]),
          ret |-> "InsertOneResult"]
    ELSE [coll |-> coll, ret |-> None]

not_yet_posted_all(coll) == [rows |-> coll, N |-> Len(coll)]

not_yet_posted_of_run(coll) ==
    LET found == SelectSeq(coll, LAMBDA e :
                       /\ e.annotation.hypothesis_id = ""
                       /\ \E k \in 1..Len(preprints) :
                             preprints[k].biorxiv_doi = e.preprint.biorxiv_doi)
    IN  [rows |-> found, N |-> Len(found)]

not_yet_posted(coll) ==
    LET found == SelectSeq(coll, LAMBDA e : e.annotation.hypothesis_id = "")
    IN  [rows |-> found, N |-> Len(found)]

\* the index of the first document matching (matches[k] says whether the
\* k-th document matches the query), 0 if none
FirstIndex(matches) ==
    IF \E k \in 1..Len(matches) : matches[k]
    THEN CHOOSE k \in 1..Len(matches) :
            matches[k] /\ \A m \in 1..(k - 1) : ~ matches[m]
    ELSE 0

update_all(coll, doi, hyp_id) ==
    [k \in 1..Len(coll) |-> [coll[k] EXCEPT !.annotation.hypothesis_id = hyp_id]]

update_first_document(coll, doi, hyp_id) ==
    IF coll = <<>> THEN coll
    ELSE [coll EXCEPT ![1].annotation.hypothesis_id = hyp_id]

update(coll, doi, hyp_id) ==
    LET k == FirstIndex([m \in 1..Len(coll) |-> coll[m].preprint.biorxiv_doi = doi])
    IN  IF k = 0 THEN coll
        ELSE [coll EXCEPT ![k].annotation.hypothesis_id = hyp_id]

delete_one(coll, hyp_id) ==
    LET k == FirstIndex([m \in 1..Len(coll) |-> coll[m].annotation.hypothesis_id = hyp_id])
    IN  IF k = 0 THEN coll
        ELSE [m \in 1..(Len(coll) - 1) |-> IF m < k THEN coll[m] ELSE coll[m + 1]]

count(coll) == Len(coll)

-----------------------------------------------------------------------------
(* src/src/utils.py *)

get_groupid_first(group_name) ==
    IF group_name = "__world__" THEN "__world__" ELSE GroupList[1].id

\* the id of the first group of the list with that name, "" if none
get_groupid(group_name) ==
    IF group_name = "__world__" THEN "__world__"
    ELSE LET k == FirstIndex([m \in 1..Len(GroupList) |-> GroupList[m].name = group_name])
         IN  IF k = 0 THEN "" ELSE GroupList[k].id

\* what doi.org may answer to a request with Accept: application/json
CrossrefResponses ==
    {[status_code |-> 404, json |-> EmptyDict],
     [status_code |-> 200, json |-> ("subject" :> "biology")]}
    \cup {[status_code |-> 200, json |-> ("container-title" :> j)] : j \in JournalNames}

info(crossref) ==
    IF crossref.status_code = 200 THEN crossref.json ELSE EmptyDict

\* the url a doi resolves to: response.url
resolve(redirect) == redirect.url

\* where doi.org may send the doi of a Life Science Alliance paper
Redirects ==
    {[url |-> "https://www.life-science-alliance.org/content/2/4/e201900445"],
     [url |-> "https://www.life-science-alliance.org/lookup/doi/10.26508/lsa.201900445"]}

\* the url of the page of a preprint
BiorxivUrl(doi) == "https://www.biorxiv.org/content/" \o doi \o "v1"

-----------------------------------------------------------------------------
(* src/src/rpf.py *)

\* journal.strip().lower(), on the journal names of the model
strip_lower(journal) ==
    CASE journal = "The EMBO Journal" -> "the embo journal"
      [] journal = "Life Science Alliance" -> "life science alliance"
      [] journal = "embo reports" -> "embo reports"
      [] journal = "Nature" -> "nature"
      [] journal = " EMBO Reports " -> "embo reports"
      [] journal = "EMBO Molecular Medicine" -> "embo molecular medicine"
      [] journal = "Molecular Systems Biology" -> "molecular systems biology"
      [] journal = "LIFE SCIENCE ALLIANCE" -> "life science alliance"
      [] journal = "The EMBO Journal Reports" -> "the embo journal reports"
      [] journal = "" -> ""

\* the characters of the DOIs of the papers of the model
DoiChars ==
    {<<"1", "0", ".", "1", "5", "2", "5", "2", "/", "e", "m", "b", "j", ".", "2", "0", "1", "9", "1", "0", "2", "5", "7", "8">>,
     <<"1", "0", ".", "2", "6", "5", "0", "8", "/", "l", "s", "a", ".", "2", "0", "1", "9", "0", "0", "4", "4", "5">>,
     <<"1", "0", ".", "1", "5", "2", "5", "2", "/", "e", "m", "b", "j", "2", "0", "1", "9">>,
     <<"1", "0", ".", "1", "0", "3", "8", "/", "e", "m", "b", "o", "j", ".", "2", "0", "1", "2", ".", "1", "2", "3">>}

\* the string of a sequence of characters
RECURSIVE Str(_)
Str(cs) == IF cs = <<>> THEN "" ELSE Head(cs) \o Str(Tail(cs))

\* the characters of each DOI of the model
CharsOf == [doi \in {Str(cs) : cs \in DoiChars} |-> CHOOSE cs \in DoiChars : Str(cs) = doi]

\* the characters of a DOI of the model
Chars(doi) == CharsOf[doi]

\* \d
Digit == {"0", "1", "2", "3", "4", "5", "6", "7", "8", "9"}

\* [-_;()/:a-zA-Z0-9]
SuffixChar ==
    Digit \cup {"-", "_", ";", "(", ")", "/", ":"}
    \cup {"a", "b", "c", "d", "e", "f", "g", "h", "i", "j", "k", "l", "m",
          "n", "o", "p", "q", "r", "s", "t", "u", "v", "w", "x", "y", "z"}
    \cup {"A", "B", "C", "D", "E", "F", "G", "H", "I", "J", "K", "L", "M",
          "N", "O", "P", "Q", "R", "S", "T", "U", "V", "W", "X", "Y", "Z"}

\* the positions of the character c in cs
Positions(cs, c) == {k \in 1..Len(cs) : cs[k] = c}

\* the number of digits of cs from position k on, up to the first other character
RECURSIVE DigitRun(_, _)
DigitRun(cs, k) ==
    IF k <= Len(cs) /\ cs[k] \in Digit THEN 1 + DigitRun(cs, k + 1) ELSE 0

\* re.sub(r'^10.\d{4,9}/([-_;()/:a-zA-Z0-9]+)\.([-_;()/:a-zA-Z0-9]+)$', r'\1\2', doi):
\* the two groups when the whole DOI matches, the DOI as it is when it does not
re_sub(cs) ==
    LET d    == DigitRun(cs, 4)
        from == 5 + d
        rest == SubSeq(cs, from, Len(cs))
        dots == Positions(rest, ".")
    IN  IF /\ Len(cs) >= 3 /\ cs[1] = "1" /\ cs[2] = "0"
           /\ d >= 4 /\ d <= 9
           /\ Len(cs) >= 4 + d /\ cs[4 + d] = "/"
           /\ Cardinality(dots) = 1
           /\ \A k \in 1..Len(rest) : k \in dots \/ rest[k] \in SuffixChar
           /\ 1 \notin dots /\ Len(rest) \notin dots
        THEN SelectSeq(rest, LAMBDA c : c # ".")
        ELSE cs

\* re.sub on each DOI of the model
Substituted == [doi \in DOMAIN CharsOf |-> Str(re_sub(CharsOf[doi]))]

\* the name of the file of the reviewer comments, without its extension
suffix_without_dot(doi) == Substituted[doi]

\* re.search(r'\d+/\d+/e\d+', resolved): the list of zero or one match
vol_issue_enumber(resolved) ==
    IF resolved = "https://www.life-science-alliance.org/content/2/4/e201900445"
    THEN <<"2/4/e201900445">> ELSE <<>>

\* what the GET of a candidate link may give
Probes ==
    {[error |-> "", headers |-> ("Content-Type" :> "application/pdf")],
     [error |-> "", headers |-> ("Content-Type" :> "text/html")],
     [error |-> "", headers |-> EmptyDict],
     [error |-> "ConnectionError", headers |-> EmptyDict]}

\* a result of a function that may raise: the exception ("" if none), the value
\* and the requests it made
Result(raised, value, calls) == [raised |-> raised, value |-> value, calls |-> calls]

RPFLinkEjErEmmMsb_generate_link(doi) ==
    Result("", "https://www.embopress.org/action/downloadSupplement?doi=" \o doi
                  \o "&file=" \o suffix_without_dot(doi) \o ".reviewer_comments.pdf", {})

RPFLinkLSA_generate_link(doi, redirect) ==
    LET m == vol_issue_enumber(resolve(redirect))
    IN  IF m = <<>> THEN Result("AttributeError", "", {"resolve paper"})
        ELSE Result("", "https://www.life-science-alliance.org/content/lsa/" \o m[1]
                           \o ".reviewer-comments.pdf", {"resolve paper"})

\* 'application/pdf' in content_type, on the content types of the model
contains_pdf(content_type) ==
    content_type \in {"application/pdf", "application/pdf;charset=UTF-8"}

test_untested(link, probe) == Result("", link, {})

test(link, probe) ==
    IF link # ""
    THEN IF probe.error # "" THEN Result(probe.error, "", {"probe"})
         ELSE IF "Content-Type" \notin DOMAIN probe.headers THEN Result("KeyError", "", {"probe"})
         ELSE IF contains_pdf(probe.headers["Content-Type"]) THEN Result("", link, {"probe"})
         ELSE Result("", "", {"probe"})
    ELSE Result("", "", {})

\* resolver(doi): _generate_link then _test
Resolver(generated, probe) ==
    IF generated.raised # "" THEN generated
    ELSE LET t == test(generated.value, probe)
         IN  Result(t.raised, t.value, generated.calls \cup t.calls)

generate_rpf_link_any_journal(journal, doi, redirect, probe) ==
    IF strip_lower(journal) = "life science alliance"
    THEN Resolver(RPFLinkLSA_generate_link(doi, redirect), probe)
    ELSE Resolver(RPFLinkEjErEmmMsb_generate_link(doi), probe)

generate_rpf_link(journal, doi, redirect, probe) ==
    LET j == strip_lower(journal)
    IN  IF j \in {"the embo journal", "embo reports", "embo molecular medicine",
                  "molecular systems biology"}
        THEN Resolver(RPFLinkEjErEmmMsb_generate_link(doi), probe)
        ELSE IF j = "life science alliance"
        THEN Resolver(RPFLinkLSA_generate_link(doi, redirect), probe)
        ELSE Result("", "", {})

-----------------------------------------------------------------------------
(* src/src/template.py *)

banners ==
    ("Molecular Systems Biology" :> "RevCo_Transparency-MSB.jpg")
    @@ ("The EMBO Journal" :> "RevCo_Transparency-EMBOJ.jpg")
    @@ ("EMBO reports" :> "RevCo_Transparency-EMBOR.jpg")
    @@ ("EMBO Molecular Medicine" :> "RevCo_Transparency-EMM.jpg")
    @@ ("Life Science Alliance" :> "RevCo_Transparency-LSA.jpg")

-----------------------------------------------------------------------------
(* src/src/toolbox.py, src/src/traxiv.py: the paper and the post *)

\* Published.from_doi: the journal of the paper, from CrossRef
Published_from_doi(doi, crossref) ==
    LET crossref_metadata == info(crossref)
    IN  IF "container-title" \in DOMAIN crossref_metadata
        THEN Result("", crossref_metadata["container-title"], {"info"})
        ELSE Result("KeyError", "", {"info"})

\* PublishedWithRPF.from_doi: the paper with its link to the review process file
from_doi(doi, crossref, redirect, probe) ==
    LET parent == Published_from_doi(doi, crossref)
    IN  IF parent.raised # "" THEN parent
        ELSE LET link == generate_rpf_link(parent.value, doi, redirect, probe)
             IN  Result(link.raised,
                        PublishedWithRPF(doi, parent.value, link.value),
                        parent.calls \cup link.calls)

\* HypoPostRPF.generate: the templated text (its substitutions) and the tags
generate(preprint, paper) ==
    IF paper.journal \in DOMAIN banners
    THEN Result("",
                HypoPost(<<paper.rpf, banners[paper.journal], paper.doi>>,
                         <<"PeerReviewed", "EMBOPress", paper.journal,
                           preprint.preprint_category>>,
                         ""),
                {})
    ELSE Result("KeyError", "", {})

hyp_id_of_constant(resp) == IF resp.status_code = 200 THEN "posted" ELSE ""

hyp_id_of_marks(resp) == IF resp.status_code = 200 THEN resp.id ELSE "rejected"

\* post(): the id written to the database for a response of hypothes.is
hyp_id_of(resp) == IF resp.status_code = 200 THEN resp.id ELSE ""

reason_rpf_only(paper, journal_list) ==
    (IF paper.rpf = "" THEN "rpf issue" ELSE "not in journals") \o " "

\* the reason update() gives for a preprint it did not insert
reason(paper, journal_list) ==
    (IF paper.rpf = "" THEN "rpf issue" ELSE "") \o " "
    \o (IF ~ InList(paper.journal, journal_list) THEN "not in journals" ELSE "")

-----------------------------------------------------------------------------
(* The state after construction: MG = MongoPreprints(HYPOTHESIS_USER) *)

NoResponse == [status_code |-> 0, id |-> ""]

Init ==
    /\ db = [g \in GroupIds |-> <<>>]
    /\ hypothesis = {}
    /\ group = None
    /\ pc = "idle"
    /\ groupid = ""
    /\ journals = <<>>
    /\ preprints = <<>>
    /\ i = 0
    /\ not_updated = <<>>
    /\ rows = <<>>
    /\ response = NoResponse
    /\ updated = 0
    /\ faults = 0
    /\ failed = {}
    /\ trace = [op |-> "init"]
    /\ outcome = "none"
    /\ at = "none"
    /\ cursor = 0
    /\ remaining = 0
    /\ results = <<>>
    /\ requested = <<>>
    /\ workers = [w \in Workers |-> Idle]

\* biorxiv.main is another program: the pipeline does not touch its state
BiorxivFrame == UNCHANGED <<at, cursor, remaining, results, requested, workers>>

\* the process ends: its memory is lost, the database and hypothes.is stay
Exit(how) ==
    /\ pc' = "idle"
    /\ group' = None
    /\ groupid' = ""
    /\ journals' = <<>>
    /\ preprints' = <<>>
    /\ i' = 0
    /\ not_updated' = <<>>
    /\ rows' = <<>>
    /\ response' = NoResponse
    /\ updated' = 0
    /\ outcome' = how

\* the process ends on an exception nothing catches
Crash(exception) ==
    /\ faults < MaxFaults
    /\ faults' = faults + 1
    /\ Exit(exception)

-----------------------------------------------------------------------------
(* src/src/traxiv.py: Traxiv.post_all, step by step *)

\* post_all: group_in_db(group_name); with no such group the run ends there
Start(group_name, journal_list) ==
    /\ pc = "idle"
    /\ LET gid == get_groupid(group_name)
       IN  IF gid # ""
           THEN /\ group' = gid
                /\ groupid' = gid
                /\ journals' = journal_list
                /\ pc' = "retrieve"
                /\ outcome' = "running"
                /\ trace' = [op |-> "group_in_db", name |-> group_name, ret |-> gid]
           ELSE /\ outcome' = "could not find group"
                /\ trace' = [op |-> "group_in_db", name |-> group_name, ret |-> gid]
                /\ UNCHANGED <<group, groupid, journals, pc>>
    /\ UNCHANGED <<db, hypothesis, preprints, i, not_updated, rows, response, updated,
                   faults, failed>>
    /\ BiorxivFrame

\* retrieve_preprints: the preprints of all prefixes, as bioRxiv lists them
RetrievePreprints ==
    /\ pc = "retrieve"
    /\ \E ps \in ListsUpTo(Catalog, MaxBatch) :
          /\ preprints' = [k \in 1..Len(ps) |-> Preprint(ps[k], "")]
          /\ trace' = [op |-> "retrieve_preprints", ret |-> Len(ps)]
    /\ not_updated' = <<>>
    /\ i' = 1
    /\ pc' = "update"
    /\ UNCHANGED <<db, hypothesis, group, groupid, journals, rows, response, updated,
                   faults, failed, outcome>>
    /\ BiorxivFrame

\* update(): the body of the loop for one preprint, on collection coll. The result:
\* the exception raised ("" if none), the collection, the requests made, the record
\* appended to not_updated (if any), the paper derived (if from_doi returned)
update_item(coll, prepr, journal_list, crossref, redirect, probe) ==
    LET doi  == prepr.biorxiv_doi
        out(raised, newcoll, calls, inserted, record, paper) ==
            [raised |-> raised, coll |-> newcoll, calls |-> calls, inserted |-> inserted,
             not_updated |-> record, paper |-> paper]
    IN  IF exists(coll, doi)
        THEN out("", coll, {}, FALSE, <<[doi |-> doi, reason |-> "pre-existing"]>>, <<>>)
        ELSE LET paper == from_doi(prepr.published_doi, crossref, redirect, probe)
             IN  IF paper.raised # "" THEN out(paper.raised, coll, paper.calls, FALSE, <<>>, <<>>)
                 ELSE IF paper.value.rpf # "" /\ InList(paper.value.journal, journal_list)
                 THEN LET p2 == [prepr EXCEPT !.biorxiv_url = BiorxivUrl(doi)]
                          hypo_post == generate(p2, paper.value)
                          calls == paper.calls \cup {"resolve preprint"}
                      IN  IF hypo_post.raised # ""
                          THEN out(hypo_post.raised, coll, calls, FALSE, <<>>, <<paper.value>>)
                          ELSE out("", insert(coll, p2, paper.value, hypo_post.value).coll,
                                   calls, TRUE, <<>>, <<paper.value>>)
                 ELSE out("", coll, paper.calls, FALSE,
                          <<[doi |-> doi, reason |-> reason(paper.value, journal_list)]>>,
                          <<paper.value>>)

\* the answers of the outside world to the requests of one turn of update(); an
\* answer is drawn only for a request that is made
Answers == [crossref : CrossrefResponses, redirect : Redirects, probe : Probes]

NoAnswer == CHOOSE a \in Answers : TRUE

Drawn(a, calls) ==
    /\ "info" \notin calls => a.crossref = NoAnswer.crossref
    /\ "resolve paper" \notin calls => a.redirect = NoAnswer.redirect
    /\ "probe" \notin calls => a.probe = NoAnswer.probe

\* update(): one turn of the loop
UpdateStep ==
    /\ pc = "update"
    /\ i <= Len(preprints)
    /\ \E a \in Answers :
       \E r \in {update_item(db[group], preprints[i], journals,
                             a.crossref, a.redirect, a.probe)} :
          /\ Drawn(a, r.calls)
          /\ trace' = [op |-> "update", doi |-> preprints[i].biorxiv_doi,
                       raised |-> r.raised, calls |-> r.calls, inserted |-> r.inserted,
                       paper |-> r.paper, group |-> group, probe |-> a.probe,
                       redirect |-> a.redirect]
          /\ IF r.raised # ""
             THEN /\ Crash(r.raised)
                  /\ UNCHANGED <<db>>
             ELSE /\ db' = [db EXCEPT ![group] = r.coll]
                  /\ not_updated' = not_updated \o r.not_updated
                  /\ i' = i + 1
                  /\ UNCHANGED <<group, pc, groupid, journals, preprints, rows,
                                 response, updated, faults, outcome>>
    /\ UNCHANGED <<hypothesis, failed>>
    /\ BiorxivFrame

PostStart_early ==
    /\ pc = "update"
    /\ rows' = not_yet_posted(db[group]).rows
    /\ updated' = 0
    /\ i' = 1
    /\ pc' = "post"
    /\ trace' = [op |-> "update done", preprints |-> preprints, not_updated |-> not_updated,
                 group |-> group]
    /\ preprints' = <<>>
    /\ journals' = <<>>
    /\ not_updated' = <<>>
    /\ UNCHANGED <<db, hypothesis, group, groupid, response, faults, failed, outcome>>
    /\ BiorxivFrame

\* update() returns and post() starts: rows, N = self.db.not_yet_posted(); what
\* update() worked on is not read any more
PostStart ==
    /\ pc = "update"
    /\ i > Len(preprints)
    /\ rows' = not_yet_posted(db[group]).rows
    /\ updated' = 0
    /\ i' = 1
    /\ pc' = "post"
    /\ trace' = [op |-> "update done", preprints |-> preprints, not_updated |-> not_updated,
                 group |-> group]
    /\ preprints' = <<>>
    /\ journals' = <<>>
    /\ not_updated' = <<>>
    /\ UNCHANGED <<db, hypothesis, group, groupid, response, faults, failed, outcome>>
    /\ BiorxivFrame

\* the id hypothes.is gives to a new annotation
new_id(gid, doi) ==
    gid \o ":" \o doi \o "#"
    \o ToString(Cardinality({a \in hypothesis : a.group = gid /\ a.doi = doi}) + 1)

\* post(): post_one() for the row at hand; hypothes.is accepts the annotation or not
PostOne ==
    /\ pc = "post"
    /\ i <= Len(rows)
    /\ LET doi == rows[i].preprint.biorxiv_doi
       IN  /\ \/ /\ hypothesis' = hypothesis \cup
                        {[id |-> new_id(groupid, doi), group |-> groupid, doi |-> doi,
                          text |-> rows[i].annotation.annotation_text]}
                 /\ response' = [status_code |-> 200, id |-> new_id(groupid, doi)]
                 /\ UNCHANGED <<faults, failed>>
              \/ /\ faults < MaxFaults
                 /\ faults' = faults + 1
                 /\ response' = [status_code |-> 400, id |-> ""]
                 /\ failed' = failed \cup {<<groupid, doi>>}
                 /\ UNCHANGED hypothesis
           /\ trace' = [op |-> "post_one", doi |-> doi, group |-> groupid]
    /\ pc' = "posted"
    /\ UNCHANGED <<db, group, groupid, journals, preprints, i, not_updated, rows, updated,
                   outcome>>
    /\ BiorxivFrame

\* post(): self.db.update(preprint.biorxiv_doi, hyp_id); updated += 1
SetPublished ==
    /\ pc = "posted"
    /\ LET doi == rows[i].preprint.biorxiv_doi
       IN  /\ db' = [db EXCEPT ![group] = update(db[group], doi, hyp_id_of(response))]
           /\ trace' = [op |-> "db.update", doi |-> doi, hyp_id |-> hyp_id_of(response),
                        group |-> group]
    /\ updated' = updated + 1
    /\ i' = i + 1
    /\ response' = NoResponse
    /\ pc' = "post"
    /\ UNCHANGED <<hypothesis, group, groupid, journals, preprints, not_updated, rows,
                   faults, failed, outcome>>
    /\ BiorxivFrame

\* post() returns, post_all prints the number of records posted, the process ends
PostDone ==
    /\ pc = "post"
    /\ i > Len(rows)
    /\ trace' = [op |-> "post done", posted |-> updated, group |-> group]
    /\ Exit("done")
    /\ UNCHANGED <<db, hypothesis, faults, failed>>
    /\ BiorxivFrame

\* the process is stopped (a signal, an exception of the network or of the database)
Interrupt ==
    /\ pc # "idle"
    /\ faults < MaxFaults
    /\ faults' = faults + 1
    /\ trace' = [op |-> "interrupt", at |-> pc, group |-> group]
    /\ Exit("interrupted")
    /\ UNCHANGED <<db, hypothesis, failed>>
    /\ BiorxivFrame

Next ==
    \/ \E group_name \in GroupNames, journal_list \in JournalLists :
          Start(group_name, journal_list)
    \/ RetrievePreprints
    \/ UpdateStep
    \/ PostStart
    \/ PostOne
    \/ SetPublished
    \/ PostDone
    \/ Interrupt

Spec == Init /\ [][Next]_vars

\* the steps of a run on the group "EMBO Press": the process runs on unless it is
\* stopped, and the pipeline is started again after a run ended
Steps ==
    \/ \E journal_list \in JournalLists : Start("EMBO Press", journal_list)
    \/ RetrievePreprints
    \/ UpdateStep
    \/ PostStart
    \/ PostOne
    \/ SetPublished
    \/ PostDone

LiveSpec == Spec /\ WF_vars(Steps)

-----------------------------------------------------------------------------
(* src/src/db.py: the methods of MongoPreprints, called in any order *)

\* the posts the callers insert
Texts == {"first text", "second text"}

\* the hypothes.is ids the callers write
HypIds == {"", "abc"}

PaperOf(p) ==
    PublishedWithRPF(p.published_doi, "The EMBO Journal",
                     RPFLinkEjErEmmMsb_generate_link(p.published_doi).value)

StoreFrame ==
    UNCHANGED <<hypothesis, pc, groupid, journals, preprints, i, not_updated, rows,
                response, updated, faults, failed, outcome,
                at, cursor, remaining, results, requested, workers>>

\* a method that reads self.group before collection() was called
Unbound(op) ==
    /\ group = None
    /\ trace' = [op |-> op, raised |-> "AttributeError"]
    /\ UNCHANGED <<db, group>>

StoreCollection(gid) ==
    /\ group' = gid
    /\ trace' = [op |-> "collection", gid |-> gid, raised |-> ""]
    /\ UNCHANGED db
    /\ StoreFrame

StoreInsert(p, text) ==
    /\ \/ Unbound("insert")
       \/ /\ group # None
          /\ LET preprint == Preprint(p, BiorxivUrl(p.biorxiv_doi))
                 r == insert(db[group], preprint, PaperOf(p), HypoPost(text, <<>>, ""))
             IN  /\ db' = [db EXCEPT ![group] = r.coll]
                 /\ trace' = [op |-> "insert", doi |-> p.biorxiv_doi, text |-> text,
                              ret |-> r.ret, raised |-> ""]
          /\ UNCHANGED group
    /\ StoreFrame

StoreExists(doi) ==
    /\ \/ Unbound("exists")
       \/ /\ group # None
          /\ trace' = [op |-> "exists", doi |-> doi, ret |-> exists(db[group], doi),
                       raised |-> ""]
          /\ UNCHANGED <<db, group>>
    /\ StoreFrame

StoreNotYetPosted ==
    /\ \/ Unbound("not_yet_posted")
       \/ /\ group # None
          /\ trace' = [op |-> "not_yet_posted", ret |-> not_yet_posted(db[group]),
                       raised |-> ""]
          /\ UNCHANGED <<db, group>>
    /\ StoreFrame

StoreUpdate(doi, hyp_id) ==
    /\ \/ Unbound("update")
       \/ /\ group # None
          /\ db' = [db EXCEPT ![group] = update(db[group], doi, hyp_id)]
          /\ trace' = [op |-> "update", doi |-> doi, hyp_id |-> hyp_id, raised |-> ""]
          /\ UNCHANGED group
    /\ StoreFrame

StoreDeleteOne(hyp_id) ==
    /\ \/ Unbound("delete_one")
       \/ /\ group # None
          /\ db' = [db EXCEPT ![group] = delete_one(db[group], hyp_id)]
          /\ trace' = [op |-> "delete_one", hyp_id |-> hyp_id, raised |-> ""]
          /\ UNCHANGED group
    /\ StoreFrame

StoreDrop ==
    /\ \/ /\ group = None
          /\ trace' = [op |-> "drop", raised |-> "TypeError"]
          /\ UNCHANGED <<db, group>>
       \/ /\ group # None
          /\ db' = [db EXCEPT ![group] = <<>>]
          /\ group' = None
          /\ trace' = [op |-> "drop", raised |-> ""]
    /\ StoreFrame

StoreCount ==
    /\ \/ Unbound("count")
       \/ /\ group # None
          /\ trace' = [op |-> "count", ret |-> count(db[group]), raised |-> ""]
          /\ UNCHANGED <<db, group>>
    /\ StoreFrame

StoreNext ==
    \/ \E gid \in GroupIds : StoreCollection(gid)
    \/ \E p \in Catalog, text \in Texts : StoreInsert(p, text)
    \/ \E doi \in DOIs : StoreExists(doi)
    \/ StoreNotYetPosted
    \/ \E doi \in DOIs, hyp_id \in HypIds : StoreUpdate(doi, hyp_id)
    \/ \E hyp_id \in HypIds : StoreDeleteOne(hyp_id)
    \/ StoreDrop
    \/ StoreCount

StoreSpec == Init /\ [][StoreNext]_vars

-----------------------------------------------------------------------------
(* src/src/db.py: insert() called by two processes bound to the same collection; *)
(* a step is one request to MongoDB                                              *)

\* the collection the workers are bound to
WorkerGroup == "g1"

WorkerFrame ==
    UNCHANGED <<hypothesis, group, pc, groupid, journals, preprints, i, not_updated, rows,
                response, updated, faults, failed, outcome,
                at, cursor, remaining, results, requested>>

\* insert(preprint, paper, hypo_post) is called by worker w
WorkerInsert(w, doi) ==
    /\ workers[w].pc = "idle"
    /\ workers[w].calls < MaxCalls
    /\ workers' = [workers EXCEPT ![w].pc = "insert", ![w].doi = doi,
                                  ![w].calls = workers[w].calls + 1]
    /\ trace' = [op |-> "insert called", worker |-> w, doi |-> doi]
    /\ UNCHANGED db
    /\ WorkerFrame

\* insert(): self.exists(preprint.biorxiv_doi), a find_one on the collection
WorkerExists(w) ==
    /\ workers[w].pc = "insert"
    /\ workers' = [workers EXCEPT ![w].pc = "exists returned",
                                  ![w].pre_existing = exists(db[WorkerGroup], workers[w].doi)]
    /\ trace' = [op |-> "exists", worker |-> w, doi |-> workers[w].doi]
    /\ UNCHANGED db
    /\ WorkerFrame

\* insert(): self.group.insert_one(...) if the document did not exist, else None
WorkerInsertOne(w) ==
    /\ workers[w].pc = "exists returned"
    /\ LET p == CHOOSE c \in Catalog : c.biorxiv_doi = workers[w].doi
           document == [preprint |-> Preprint(p, BiorxivUrl(p.biorxiv_doi)),
                        paper |-> PaperOf(p),
                        annotation |-> HypoPost("first text", <<>>, "")]
       IN  IF ~ workers[w].pre_existing
           THEN db' = [db EXCEPT ![WorkerGroup] = insert_one(db[WorkerGroup], document)]
           ELSE db' = db
    /\ workers' = [workers EXCEPT ![w].pc = "idle", ![w].pre_existing = FALSE,
                                  ![w].done = workers[w].done \cup {workers[w].doi}]
    /\ trace' = [op |-> "insert", worker |-> w, doi |-> workers[w].doi,
                 ret |-> IF workers[w].pre_existing THEN None ELSE "InsertOneResult"]
    /\ WorkerFrame

WorkersNext ==
    \E w \in Workers :
       \/ \E doi \in DOIs : WorkerInsert(w, doi)
       \/ WorkerExists(w)
       \/ WorkerInsertOne(w)

WorkersSpec == Init /\ [][WorkersNext]_vars

-----------------------------------------------------------------------------
(* src/src/purge.py: purge.main, run between the runs of the pipeline *)

\* purge.main: the annotations of the group that the search returned (at most
\* limit) and whose deletion hypothes.is answered with 200 are gone
Purge(group_name) ==
    /\ pc = "idle"
    /\ LET gid == get_groupid(group_name)
       IN  IF gid # ""
           THEN \E deleted \in SUBSET {a \in hypothesis : a.group = gid} :
                   /\ hypothesis' = hypothesis \ deleted
                   /\ trace' = [op |-> "purge", name |-> group_name, group |-> gid,
                                deleted |-> {a.id : a \in deleted}]
           ELSE /\ trace' = [op |-> "purge", name |-> group_name, group |-> gid,
                             deleted |-> {}]
                /\ UNCHANGED hypothesis
    /\ UNCHANGED <<db, group, pc, groupid, journals, preprints, i, not_updated, rows,
                   response, updated, faults, failed, outcome>>
    /\ BiorxivFrame

PurgeNext ==
    \/ Next
    \/ \E group_name \in GroupNames : Purge(group_name)

PurgeSpec == Init /\ [][PurgeNext]_vars

-----------------------------------------------------------------------------
(* src/src/biorxiv.py: retrieve and details, as biorxiv.main calls them *)

\* the k-th item of the listing of the publisher on bioRxiv
Item(k) ==
    [biorxiv_doi |-> "10.1101/10" \o ToString(k),
     published_doi |-> "10.15252/embj.20" \o ToString(k),
     preprint_title |-> "T" \o ToString(k), preprint_category |-> "cell biology"]

\* what bioRxiv may answer to the request of the page at cursor c: an error, a
\* message that is not 'ok', or a page of count items from the cursor on that
\* reports some total
Pages(c) ==
    {[status_code |-> 500, message |-> [status |-> "", count |-> 0, total |-> 0],
      collection |-> <<>>],
     [status_code |-> 200,
      message |-> [status |-> "no posts found", count |-> 0, total |-> 0],
      collection |-> <<>>]}
    \cup {[status_code |-> 200, message |-> [status |-> "ok", count |-> n, total |-> t],
           collection |-> [k \in 1..n |-> Item(c + k)]] : n \in 0..MaxCount, t \in 0..MaxTotal}

\* the page is a 200 with the status message 'ok'
Ok(page) == page.status_code = 200 /\ page.message.status = "ok"

\* [Preprint(**j) for j in response['collection']]
Records(collection) == [k \in 1..Len(collection) |-> Preprint(collection[k], "")]

retrieve_page_next_page(cur, res, page) ==
    IF Ok(page)
    THEN [cursor |-> cur + 1,
          remaining |-> page.message.total - page.message.count,
          results |-> res \o Records(page.collection)]
    ELSE [cursor |-> cur, remaining |-> 0, results |-> res]

retrieve_page_retries(cur, res, page) ==
    IF Ok(page)
    THEN [cursor |-> cur + page.message.count,
          remaining |-> page.message.total - page.message.count,
          results |-> res \o Records(page.collection)]
    ELSE [cursor |-> cur, remaining |-> 1, results |-> res]

retrieve_page_remaining_total(cur, res, page) ==
    IF Ok(page)
    THEN [cursor |-> cur + page.message.count,
          remaining |-> page.message.total,
          results |-> res \o Records(page.collection)]
    ELSE [cursor |-> cur, remaining |-> 0, results |-> res]

\* retrieve(): the body of the loop, for the response to the request at cursor cur
retrieve_page(cur, res, page) ==
    IF page.status_code = 200
    THEN IF page.message.status = "ok"
         THEN [cursor |-> cur + page.message.count,
               remaining |-> page.message.total - page.message.count,
               results |-> res \o Records(page.collection)]
         ELSE [cursor |-> cur, remaining |-> 0, results |-> res]
    ELSE [cursor |-> cur, remaining |-> 0, results |-> res]

\* what the detail endpoint of bioRxiv may answer for a preprint
DetailResponses ==
    {[status_code |-> 404, collection |-> <<>>],
     [status_code |-> 200, collection |-> <<>>],
     [status_code |-> 200,
      collection |-> <<[author_corresponding |-> "A. Author",
                        author_corresponding_institution |-> "EMBL"],
                       [author_corresponding |-> "B. Other",
                        author_corresponding_institution |-> "ETH"]>>]}

\* p.corr_author = a; p.institution = b
SetDetails(p, a, b) == ("corr_author" :> a) @@ ("institution" :> b) @@ p

\* details(): the body of the loop, for the response to the request for preprint p
details_item(p, resp) ==
    IF resp.status_code = 200
    THEN IF resp.collection # <<>>
         THEN SetDetails(p, resp.collection[1].author_corresponding,
                         resp.collection[1].author_corresponding_institution)
         ELSE SetDetails(p, "", "")
    ELSE p

\* the pipeline and the database are not touched by biorxiv.main
TraxivFrame ==
    UNCHANGED <<db, hypothesis, group, pc, groupid, journals, preprints, not_updated,
                rows, response, updated, faults, failed, workers>>

\* biorxiv.main: results = retrieve(prefix, start, end), up to the loop
RetrieveCall ==
    /\ at = "none"
    /\ at' = "retrieve"
    /\ results' = <<>>
    /\ cursor' = 0
    /\ remaining' = 1
    /\ requested' = <<>>
    /\ trace' = [op |-> "retrieve called"]
    /\ outcome' = "running"
    /\ UNCHANGED i
    /\ TraxivFrame

\* retrieve(): one turn of the loop
RetrievePage ==
    /\ at = "retrieve"
    /\ remaining > 0
    /\ Len(requested) < MaxRequests
    /\ \E page \in Pages(cursor) :
       \E r \in {retrieve_page(cursor, results, page)} :
          /\ cursor' = r.cursor
          /\ remaining' = r.remaining
          /\ results' = r.results
          /\ trace' = [op |-> "retrieve page", page |-> page]
    /\ requested' = Append(requested, cursor)
    /\ UNCHANGED <<at, i, outcome>>
    /\ TraxivFrame

\* retrieve(): the loop ends, the results are returned
RetrieveReturn ==
    /\ at = "retrieve"
    /\ ~ (remaining > 0)
    /\ at' = "retrieved"
    /\ trace' = [op |-> "retrieve", ret |-> results]
    /\ UNCHANGED <<cursor, remaining, results, requested, i, outcome>>
    /\ TraxivFrame

\* biorxiv.main: results = details(results), up to the loop
DetailsCall ==
    /\ at = "retrieved"
    /\ Len(results) <= MaxBatch
    /\ at' = "details"
    /\ i' = 1
    /\ trace' = [op |-> "details called"]
    /\ UNCHANGED <<cursor, remaining, results, requested, outcome>>
    /\ TraxivFrame

\* details(): one turn of the loop
DetailsItem ==
    /\ at = "details"
    /\ i <= Len(results)
    /\ \E resp \in DetailResponses :
          /\ results' = [results EXCEPT ![i] = details_item(results[i], resp)]
          /\ trace' = [op |-> "details item", resp |-> resp]
    /\ i' = i + 1
    /\ UNCHANGED <<at, cursor, remaining, requested, outcome>>
    /\ TraxivFrame

\* details() returns and biorxiv.main prints the rows: it reads corr_author and
\* institution of every preprint
DetailsReturn ==
    /\ at = "details"
    /\ i > Len(results)
    /\ at' = "detailed"
    /\ i' = 0
    /\ trace' = [op |-> "details", ret |-> results]
    /\ outcome' = IF \A k \in 1..Len(results) :
                        {"corr_author", "institution"} \subseteq DOMAIN results[k]
                   THEN "done" ELSE "AttributeError"
    /\ UNCHANGED <<cursor, remaining, results, requested>>
    /\ TraxivFrame

BiorxivNext ==
    \/ RetrieveCall
    \/ RetrievePage
    \/ RetrieveReturn
    \/ DetailsCall
    \/ DetailsItem
    \/ DetailsReturn

BiorxivSpec == Init /\ [][BiorxivNext]_vars

-----------------------------------------------------------------------------
(* src/src/rpf.py: generate_rpf_link, on any journal name *)

\* journal names as a caller may pass them
LinkJournals ==
    JournalNames \cup {" EMBO Reports ", "EMBO Molecular Medicine", "Molecular Systems Biology",
                       "LIFE SCIENCE ALLIANCE", "The EMBO Journal Reports", ""}

\* the DOIs of the papers: those of the catalog, one without a dot in its suffix
\* and one with two
LinkDois == {Str(cs) : cs \in DoiChars}

\* what the GET of a candidate link may give
LinkProbes ==
    Probes \cup {[error |-> "", headers |-> ("Content-Type" :> "application/pdf;charset=UTF-8")]}

\* the inputs are drawn: a journal name, a DOI, and what the network would answer
LinkInit ==
    /\ \E journal \in LinkJournals, doi \in LinkDois, redirect \in Redirects,
          probe \in LinkProbes :
          trace = [op |-> "input", journal |-> journal, doi |-> doi,
                   redirect |-> redirect, probe |-> probe]
    /\ db = [g \in GroupIds |-> <<>>]
    /\ hypothesis = {}
    /\ group = None
    /\ pc = "idle"
    /\ groupid = ""
    /\ journals = <<>>
    /\ preprints = <<>>
    /\ i = 0
    /\ not_updated = <<>>
    /\ rows = <<>>
    /\ response = NoResponse
    /\ updated = 0
    /\ faults = 0
    /\ failed = {}
    /\ outcome = "none"
    /\ at = "none"
    /\ cursor = 0
    /\ remaining = 0
    /\ results = <<>>
    /\ requested = <<>>
    /\ workers = [w \in Workers |-> Idle]

\* generate_rpf_link(journal, doi) is called
ResolveLink ==
    /\ trace.op = "input"
    /\ \E r \in {generate_rpf_link(trace.journal, trace.doi, trace.redirect, trace.probe)} :
          trace' = [op |-> "generate_rpf_link", journal |-> trace.journal,
                    doi |-> trace.doi, redirect |-> trace.redirect, probe |-> trace.probe,
                    raised |-> r.raised, ret |-> r.value, calls |-> r.calls]
    /\ TraxivFrame
    /\ BiorxivFrame
    /\ UNCHANGED <<i, outcome>>

LinkNext == ResolveLink

LinkSpec == LinkInit /\ [][LinkNext]_vars

-----------------------------------------------------------------------------
(* Properties *)

\* the documents of collection coll for the preprint doi
EntriesOf(coll, doi) == {k \in 1..Len(coll) : coll[k].preprint.biorxiv_doi = doi}

\* the documents of collection coll with no hypothes.is id
Unpublished(coll) == {k \in 1..Len(coll) : coll[k].annotation.hypothesis_id = ""}

\* C1: in every state the runs of the pipeline reach (repeated runs, lists that
\* name a preprint twice), each collection holds at most one document per preprint
\* doi; an update pass over a preprint already stored adds no second document.
C1_OneEntryPerPreprint ==
    \A g \in GroupIds : \A doi \in DOIs : Cardinality(EntriesOf(db[g], doi)) <= 1

\* C1 witness: a later run went over a preprint that was stored and posted before
C1_Witness ==
    /\ pc = "update"
    /\ trace.op = "update"
    /\ \E k \in EntriesOf(db[group], trace.doi) :
          db[group][k].annotation.hypothesis_id # ""

\* C2: hypothes.is never accepts more than one annotation for a preprint of a group,
\* whatever runs are interrupted and wherever.
C2_AtMostOncePosting ==
    \A g \in GroupIds : \A doi \in DOIs :
        Cardinality({a \in hypothesis : a.group = g /\ a.doi = doi}) <= 1

\* C3: insert for a preprint doi that has a document in the bound collection
\* returns None and changes no document of the database.
C3_InsertExistingIsNoOp ==
    [][ ( /\ group # None
          /\ trace'.op = "insert"
          /\ trace'.raised = ""
          /\ EntriesOf(db[group], trace'.doi) # {} )
        => (db' = db /\ trace'.ret = None /\ group' = group) ]_vars

\* C3 witness: the second insert of a preprint, with another text, left the first
C3_Witness ==
    /\ group # None
    /\ trace.op = "insert"
    /\ trace.raised = ""
    /\ trace.ret = None
    /\ trace.text = "second text"
    /\ \E k \in EntriesOf(db[group], trace.doi) :
          db[group][k].annotation.annotation_text = "first text"

\* C4: not_yet_posted returns exactly the documents of the bound collection whose
\* hypothesis_id is the empty string, each once, and their number; after
\* update(doi, x) with a non-empty x it does not return the document of doi.
C4_FindUnpublished ==
    /\ (group # None /\ trace.op = "not_yet_posted" /\ trace.raised = "") =>
          LET r == trace.ret
              coll == db[group]
          IN  /\ \A k \in Unpublished(coll) : \E m \in 1..Len(r.rows) : r.rows[m] = coll[k]
              /\ \A m \in 1..Len(r.rows) :
                    /\ r.rows[m].annotation.hypothesis_id = ""
                    /\ \E k \in 1..Len(coll) : coll[k] = r.rows[m]
              /\ Len(r.rows) = Cardinality(Unpublished(coll))
              /\ r.N = Cardinality(Unpublished(coll))
    /\ (group # None /\ trace.op = "update" /\ trace.raised = "" /\ trace.hyp_id # "") =>
          LET r == not_yet_posted(db[group])
          IN  \A m \in 1..Len(r.rows) : r.rows[m].preprint.biorxiv_doi # trace.doi

\* C4 witness: of two documents, one got an id by update; not_yet_posted returned
\* the other one alone
C4_Witness ==
    /\ group # None
    /\ trace.op = "not_yet_posted"
    /\ trace.raised = ""
    /\ trace.ret.N = 1
    /\ Len(db[group]) = 2
    /\ \E k \in 1..2 : db[group][k].annotation.hypothesis_id = "abc"


\* the preprint post() is at
RowDoi == rows[i].preprint.biorxiv_doi

\* C5 as stated: once hypothes.is refused the post of a preprint, no later step
\* submits a create-annotation request for that preprint of that group.
C5_RetriesSuppressed ==
    [][ (pc = "post" /\ pc' = "posted") => <<groupid, RowDoi>> \notin failed ]_vars

\* C5 as amended: after a refused post, post() writes the empty id, so the document
\* keeps hypothesis_id '' and not_yet_posted still returns it; the pass goes on to
\* the next row without posting it again; every publish pass starts from all the
\* documents without id and posts each of its rows.
C5_RefusedPostStaysUnpublished ==
    [][ /\ (pc = "posted" /\ response.status_code # 200 /\ pc' = "post") =>
              /\ \A k \in EntriesOf(db'[group], RowDoi) :
                    db'[group][k].annotation.hypothesis_id = ""
              /\ \E m \in 1..not_yet_posted(db'[group]).N :
                    not_yet_posted(db'[group]).rows[m].preprint.biorxiv_doi = RowDoi
              /\ i' = i + 1
        /\ (pc = "update" /\ pc' = "post") =>
              \A k \in Unpublished(db[group]) :
                  \E m \in 1..Len(rows') : rows'[m] = db[group][k]
        /\ (pc \in {"post", "posted"} /\ i' = i + 1) =>
              (pc = "posted" /\ trace.op = "post_one" /\ trace.doi = RowDoi)
      ]_vars

\* C5 witness: a preprint whose post was refused before is posted again, and accepted
C5_Witness ==
    /\ pc = "posted"
    /\ response.status_code = 200
    /\ <<groupid, RowDoi>> \in failed

\* C6: no step of the pipeline removes or replaces a document; the only change to a
\* document is that of its hypothesis_id, from '' to the non-empty id hypothes.is
\* gave in a 200 response to the post of that preprint - so at most once.
C6_EntryLifecycle ==
    [][ \A g \in GroupIds :
          /\ Len(db'[g]) >= Len(db[g])
          /\ \A k \in 1..Len(db[g]) :
                \/ db'[g][k] = db[g][k]
                \/ /\ db[g][k].annotation.hypothesis_id = ""
                   /\ pc = "posted"
                   /\ g = group
                   /\ response.status_code = 200
                   /\ response.id # ""
                   /\ db[g][k].preprint.biorxiv_doi = RowDoi
                   /\ db'[g][k] = [db[g][k] EXCEPT !.annotation.hypothesis_id = response.id]
      ]_vars

\* C6 witness: a document got its id while another one had got its own before
C6_Witness ==
    /\ trace.op = "db.update"
    /\ trace.hyp_id # ""
    /\ \E k \in 1..Len(db[group]) :
          db[group][k].annotation.hypothesis_id \notin {"", trace.hyp_id}

\* the collections the runs work on
RunGroupIds == {get_groupid(group_name) : group_name \in GroupNames} \ {""}

\* C7: a run that gets to the end of post() leaves no document without id that it did
\* not submit (the ones left were refused); and, the runs going on and the faults
\* being finitely many, whenever documents are without id there comes a state where
\* every document of the collection (none is ever removed) has its id.
C7_Resumable ==
    /\ []( (pc = "post" /\ i > Len(rows)) =>
              \A k \in Unpublished(db[group]) :
                  <<groupid, db[group][k].preprint.biorxiv_doi>> \in failed )
    /\ \A g \in RunGroupIds :
          (Unpublished(db[g]) # {}) ~> (Unpublished(db[g]) = {})

\* C7 witness: a run that retrieved no preprint starts post() with the drafts an
\* earlier, stopped run had stored (no post was refused so far)
C7_Witness ==
    /\ pc = "post"
    /\ trace.op = "update done"
    /\ trace.preprints = <<>>
    /\ Len(rows) > 0
    /\ failed = {}
    /\ faults > 0

\* C8: the turn of update() for a preprint that has a document in the collection
\* makes no request (CrossRef, probe of the link, doi.org), leaves the database as
\* it is, raises nothing and appends {doi, 'pre-existing'} to not_updated.
C8_PreExistingSkipped ==
    [][ ( /\ pc = "update"
          /\ trace'.op = "update"
          /\ EntriesOf(db[group], preprints[i].biorxiv_doi) # {} )
        => /\ trace'.calls = {}
           /\ trace'.raised = ""
           /\ ~ trace'.inserted
           /\ db' = db
           /\ pc' = "update"
           /\ i' = i + 1
           /\ not_updated' = Append(not_updated, [doi |-> preprints[i].biorxiv_doi,
                                                  reason |-> "pre-existing"])
      ]_vars

\* C8 witness: update() has just skipped a preprint that was stored
C8_Witness ==
    /\ pc = "update"
    /\ trace.op = "update"
    /\ EntriesOf(db[group], trace.doi) # {}
    /\ ~ trace.inserted
    /\ Len(not_updated) > 0
    /\ not_updated[Len(not_updated)] = [doi |-> trace.doi, reason |-> "pre-existing"]

\* C9: the turn of update() for a preprint not yet stored, once the paper and its
\* link are derived, inserts a document if and only if the link is non-empty and the
\* journal is in the list of the run.
C9_InsertIffFilter ==
    [][ ( /\ pc = "update"
          /\ trace'.op = "update"
          /\ trace'.paper # <<>> )
        => ( trace'.inserted <=>
                ( /\ trace'.paper[1].rpf # ""
                  /\ InList(trace'.paper[1].journal, journals) ) )
      ]_vars

\* C10: when the CrossRef lookup of a preprint fails (no 200, or no journal name),
\* update() goes on to the next preprint.
C10_LookupFailureDoesNotStopBatch ==
    [][ ( /\ pc = "update"
          /\ trace'.op = "update"
          /\ trace'.calls = {"info"}
          /\ trace'.paper = <<>> )
        => (pc' = "update" /\ i' = i + 1) ]_vars

\* the name is '__world__' or the name of a group hypothes.is lists
Resolvable(group_name) ==
    \/ group_name = "__world__"
    \/ \E m \in 1..Len(GroupList) : GroupList[m].name = group_name

\* C11: a run started with a group name that is not resolvable ends at once and
\* normally (no exception, it reports 'could not find group'): it retrieves no
\* preprint, binds no collection, leaves the database and hypothes.is as they are
\* and makes no turn of update() or post().
C11_UnknownGroupHalts ==
    [][ ( /\ pc = "idle"
          /\ trace'.op = "group_in_db"
          /\ ~ Resolvable(trace'.name) )
        => /\ trace'.ret = ""
           /\ outcome' = "could not find group"
           /\ pc' = "idle"
           /\ group = None /\ group' = None
           /\ db' = db
           /\ hypothesis' = hypothesis
           /\ preprints' = <<>> /\ rows' = <<>>
           /\ faults' = faults
      ]_vars

\* C11 witness: a run with an unknown group name ended while the collection of an
\* earlier run holds documents
C11_Witness ==
    /\ trace.op = "group_in_db"
    /\ ~ Resolvable(trace.name)
    /\ outcome = "could not find group"
    /\ pc = "idle"
    /\ \E g \in GroupIds : db[g] # <<>>

\* the last step of retrieve() received the page trace.page
PageReceived == at = "retrieve" /\ trace.op = "retrieve page"

\* C12: retrieve() makes no request once the total reported minus the number of
\* items received so far (the cursor) reached zero: it does not go on after all
\* the items were received.
C12_PaginationTerminates ==
    [][ ( /\ PageReceived
          /\ Ok(trace.page)
          /\ trace.page.message.total - cursor <= 0 )
        => requested' = requested ]_vars

\* C13: on a page that is not a 200 or whose status message is not 'ok', retrieve()
\* keeps the results it has, makes no further request and returns these results;
\* nothing is raised.
C13_BadPageStopsPagination ==
    [][ /\ (at = "retrieve" /\ trace'.op = "retrieve page" /\ ~ Ok(trace'.page)) =>
              (results' = results /\ cursor' = cursor /\ at' = "retrieve")
        /\ (PageReceived /\ ~ Ok(trace.page)) =>
              /\ at' = "retrieved"
              /\ requested' = requested
              /\ trace' = [op |-> "retrieve", ret |-> results]
              /\ results' = results
              /\ outcome' = outcome
      ]_vars

\* C13 witness: retrieve() returned the records of a first page after a second
\* page that was not a success
C13_Witness ==
    /\ at = "retrieved"
    /\ trace.op = "retrieve"
    /\ Len(requested) = 2
    /\ Len(trace.ret) = 2
    /\ remaining = 0
    /\ cursor = 2

\* C14: when the first page is an 'ok' page whose count equals its total, retrieve()
\* has the records of the items of that page, in the order of the page, and
\* returns them without a second request.
C14_SinglePage ==
    [][ /\ ( /\ at = "retrieve" /\ requested = <<>>
              /\ trace'.op = "retrieve page"
              /\ Ok(trace'.page)
              /\ trace'.page.message.count = trace'.page.message.total ) =>
                 /\ Len(results') = Len(trace'.page.collection)
                 /\ \A k \in 1..Len(results') :
                       /\ results'[k].biorxiv_doi = trace'.page.collection[k].biorxiv_doi
                       /\ results'[k].published_doi = trace'.page.collection[k].published_doi
        /\ ( /\ PageReceived /\ Len(requested) = 1
              /\ Ok(trace.page)
              /\ trace.page.message.count = trace.page.message.total ) =>
                 /\ at' = "retrieved"
                 /\ requested' = requested
                 /\ trace' = [op |-> "retrieve", ret |-> results]
                 /\ results' = results
      ]_vars

\* C14 witness: one page with count 2 and total 2, two records returned after one
\* request
C14_Witness ==
    /\ at = "retrieved"
    /\ trace.op = "retrieve"
    /\ requested = <<0>>
    /\ Len(trace.ret) = 2
    /\ trace.ret[1].biorxiv_doi = Item(1).biorxiv_doi
    /\ trace.ret[2].biorxiv_doi = Item(2).biorxiv_doi
    /\ remaining = 0

\* C18: every record details() has gone over has its corr_author and institution
\* fields defined, whatever the detail endpoint answered for it or for the records
\* before it.
C18_DetailsDefined ==
    (at \in {"details", "detailed"}) =>
        \A k \in 1..Len(results) :
            (at = "detailed" \/ k < i) =>
                {"corr_author", "institution"} \subseteq DOMAIN results[k]

\* the five journals generate_rpf_link has a resolver for, in lower case
AllowList ==
    {"the embo journal", "embo reports", "embo molecular medicine",
     "molecular systems biology", "life science alliance"}

\* the candidate links of a paper
Candidates(doi, redirect) ==
    {RPFLinkEjErEmmMsb_generate_link(doi).value, RPFLinkLSA_generate_link(doi, redirect).value}
    \ {""}

\* C15: for a journal name that, trimmed and in lower case, is not one of the five,
\* generate_rpf_link returns the empty string, raises nothing and makes no request
\* (no resolution of the DOI, no probe).
C15_UnlistedJournalNoRequest ==
    (trace.op = "generate_rpf_link" /\ strip_lower(trace.journal) \notin AllowList) =>
        (trace.ret = "" /\ trace.raised = "" /\ trace.calls = {})

\* C15 witness: no link for a paper of Nature, although a probe would have found a PDF
C15_Witness ==
    /\ trace.op = "generate_rpf_link"
    /\ trace.journal = "Nature"
    /\ trace.ret = ""
    /\ trace.probe.error = ""
    /\ "Content-Type" \in DOMAIN trace.probe.headers
    /\ trace.probe.headers["Content-Type"] = "application/pdf"

\* C16: a link returned by generate_rpf_link is a candidate link of the paper that
\* was requested and whose response had a Content-Type of a PDF; when the response
\* of the probe has a Content-Type that is not one of a PDF, the empty string is
\* returned.
C16_OnlyProbedLinks ==
    (trace.op = "generate_rpf_link") =>
        /\ (trace.ret # "") =>
              /\ trace.ret \in Candidates(trace.doi, trace.redirect)
              /\ "probe" \in trace.calls
              /\ trace.probe.error = ""
              /\ "Content-Type" \in DOMAIN trace.probe.headers
              /\ trace.probe.headers["Content-Type"]
                     \in {"application/pdf", "application/pdf;charset=UTF-8"}
              /\ trace.raised = ""
        /\ ( /\ "probe" \in trace.calls
              /\ trace.probe.error = ""
              /\ "Content-Type" \in DOMAIN trace.probe.headers
              /\ trace.probe.headers["Content-Type"]
                     \notin {"application/pdf", "application/pdf;charset=UTF-8"} ) =>
              (trace.ret = "" /\ trace.raised = "")

\* C16 witness: the link of a Life Science Alliance paper, returned after its probe
C16_Witness ==
    /\ trace.op = "generate_rpf_link"
    /\ trace.journal = "LIFE SCIENCE ALLIANCE"
    /\ trace.ret = "https://www.life-science-alliance.org/content/lsa/2/4/e201900445.reviewer-comments.pdf"
    /\ trace.calls = {"resolve paper", "probe"}

\* the probe of the turn of update() failed: no connection, or no Content-Type
ProbeFailed(t) ==
    /\ "probe" \in t.calls
    /\ (t.probe.error # "" \/ "Content-Type" \notin DOMAIN t.probe.headers)

\* C17: when the probe of the link cannot reach the network, or its response has no
\* Content-Type, the turn of update() raises nothing, stores nothing, records the
\* preprint in not_updated with the reason 'rpf issue' and goes on to the next one.
C17_ProbeFailureIsRpfIssue ==
    [][ ( /\ pc = "update"
          /\ trace'.op = "update"
          /\ ProbeFailed(trace') )
        => /\ trace'.raised = ""
           /\ db' = db
           /\ pc' = "update"
           /\ i' = i + 1
           /\ \E rsn \in {"rpf issue ", "rpf issue not in journals"} :
                 not_updated' = Append(not_updated, [doi |-> preprints[i].biorxiv_doi,
                                                     reason |-> rsn])
      ]_vars

\* C19: after purge of a group, no document of the collection of that group carries
\* the id of an annotation that purge deleted.
C19_PurgeRemovesBoth ==
    (trace.op = "purge" /\ trace.group # "") =>
        \A k \in 1..Len(db[trace.group]) :
            db[trace.group][k].annotation.hypothesis_id \notin trace.deleted

\* C20: update(doi, hyp_id) on the bound collection sets hypothesis_id of the
\* document of the preprint doi to hyp_id and changes no other document, of this
\* collection or of another; a second update(doi, hyp_id) changes nothing more.
C20_SetPublishedIdempotent ==
    [][ ( /\ group # None
          /\ trace'.op = "update"
          /\ trace'.raised = "" )
        => /\ group' = group
           /\ \A g \in GroupIds \ {group} : db'[g] = db[g]
           /\ Len(db'[group]) = Len(db[group])
           /\ \A k \in 1..Len(db[group]) :
                 db'[group][k] =
                    IF db[group][k].preprint.biorxiv_doi = trace'.doi
                    THEN [db[group][k] EXCEPT !.annotation.hypothesis_id = trace'.hyp_id]
                    ELSE db[group][k]
           /\ update(db'[group], trace'.doi, trace'.hyp_id) = db'[group]
      ]_vars

\* C20 witness: of two documents, update gave its id to the second one, the one of
\* the preprint named, and left the first one without id
C20_Witness ==
    /\ group # None
    /\ trace.op = "update"
    /\ trace.raised = ""
    /\ trace.hyp_id = "abc"
    /\ Len(db[group]) = 2
    /\ db[group][2].preprint.biorxiv_doi = trace.doi
    /\ db[group][2].annotation.hypothesis_id = "abc"
    /\ db[group][1].annotation.hypothesis_id = ""

\* the rows of this pass whose document holds an id now
PublishedRows ==
    {k \in 1..Len(rows) :
        \E m \in EntriesOf(db[group], rows[k].preprint.biorxiv_doi) :
            db[group][m].annotation.hypothesis_id # ""}

\* C21: the number post() returns, which post_all prints as the number of records
\* posted, is the number of documents that got a non-empty id in this pass; a
\* document whose post was refused is not counted.
C21_ReportedPosted ==
    [][ (pc = "post" /\ trace'.op = "post done")
        => trace'.posted = Cardinality(PublishedRows) ]_vars

\* the order of the steps of post_all
StepOrder ==
    {<<"idle", "retrieve">>, <<"retrieve", "update">>, <<"update", "post">>,
     <<"post", "posted">>, <<"posted", "post">>}

\* C22: a run goes through its steps in the order group, retrieve, update, post (or
\* ends); post() starts only when update() has gone over every preprint; a
\* post_one call is made only in post(), when the response of the one before has
\* been dealt with (no two posts in flight); nothing is written to the database
\* while no collection is bound, and only update() and post() write, into the
\* bound collection.
C22_SequentialSteps ==
    [][ /\ (pc' # pc) => (<<pc, pc'>> \in StepOrder \/ pc' = "idle")
        /\ (pc = "update" /\ pc' = "post") => i > Len(preprints)
        /\ (pc' = "posted") => (pc = "post" /\ response = NoResponse)
        /\ (hypothesis' # hypothesis) => (pc = "post" /\ pc' = "posted")
        /\ (db' # db) =>
              /\ group # None
              /\ pc \in {"update", "posted"}
              /\ \A g \in GroupIds \ {group} : db'[g] = db[g]
      ]_vars

\* C22 witness: the second post of a pass is made, after the first was dealt with
C22_Witness ==
    /\ pc = "posted"
    /\ Len(rows) = 2
    /\ i = 2
    /\ trace.op = "post_one"
    /\ Unpublished(db[group]) = {2}

\* C23: when hypothes.is answered the post of a row with 200, post() writes the id
\* of that response into the document of that preprint and changes no other
\* document; a document with an id is not returned by not_yet_posted; at the end
\* of a pass in which every post was accepted, not_yet_posted returns nothing.
C23_SuccessfulPostRecorded ==
    /\ [][ (pc = "posted" /\ response.status_code = 200 /\ pc' = "post") =>
              /\ response.id # ""
              /\ EntriesOf(db[group], RowDoi) # {}
              /\ Len(db'[group]) = Len(db[group])
              /\ \A k \in 1..Len(db[group]) :
                    db'[group][k] =
                       IF db[group][k].preprint.biorxiv_doi = RowDoi
                       THEN [db[group][k] EXCEPT !.annotation.hypothesis_id = response.id]
                       ELSE db[group][k]
              /\ \A g \in GroupIds \ {group} : db'[g] = db[g]
          ]_vars
    /\ [](\A g \in GroupIds : \A k \in 1..Len(db[g]) :
             (db[g][k].annotation.hypothesis_id # "") =>
                 \A m \in 1..not_yet_posted(db[g]).N :
                     not_yet_posted(db[g]).rows[m].preprint.biorxiv_doi
                         # db[g][k].preprint.biorxiv_doi)
    /\ []((pc = "post" /\ i > Len(rows) /\ Cardinality(PublishedRows) = Len(rows)) =>
             not_yet_posted(db[group]).N = 0)

\* C23 witness: a pass of two rows, both accepted, is at its end
C23_Witness ==
    /\ pc = "post"
    /\ Len(rows) = 2
    /\ i > Len(rows)
    /\ trace.op = "db.update"
    /\ trace.hyp_id # ""
    /\ Cardinality(PublishedRows) = 2

\* C24: a turn of update() that raises nothing either inserts a document for the
\* preprint or appends one record for it to not_updated, never both, never
\* neither, and goes on to the next preprint, so that a pass that completes has
\* dealt with every preprint once; the record of a preprint that was not stored
\* before says 'rpf issue' exactly when the link is empty and 'not in journals'
\* exactly when the journal is not in the list.
C24_EveryPreprintAccounted ==
    [][ (pc = "update" /\ trace'.op = "update" /\ trace'.raised = "") =>
          LET doi == preprints[i].biorxiv_doi
          IN  /\ pc' = "update"
              /\ i' = i + 1
              /\ preprints' = preprints
              /\ \/ /\ trace'.inserted
                    /\ EntriesOf(db[group], doi) = {}
                    /\ Len(db'[group]) = Len(db[group]) + 1
                    /\ db'[group][Len(db'[group])].preprint.biorxiv_doi = doi
                    /\ not_updated' = not_updated
                 \/ /\ ~ trace'.inserted
                    /\ db' = db
                    /\ Len(not_updated') = Len(not_updated) + 1
                    /\ SubSeq(not_updated', 1, Len(not_updated)) = not_updated
                    /\ not_updated'[Len(not_updated')].doi = doi
                    /\ LET rsn == not_updated'[Len(not_updated')].reason
                       IN  IF EntriesOf(db[group], doi) # {}
                           THEN rsn = "pre-existing"
                           ELSE LET paper == trace'.paper[1]
                                    norpf == paper.rpf = ""
                                    notin == ~ InList(paper.journal, journals)
                                IN  /\ norpf \/ notin
                                    /\ rsn \in {"rpf issue ", "rpf issue not in journals"}
                                          <=> norpf
                                    /\ rsn \in {" not in journals", "rpf issue not in journals"}
                                          <=> notin
      ]_vars

\* C24 witness: a pass over two preprints is complete: one was inserted, the other
\* was recorded with both reasons
C24_Witness ==
    /\ pc = "update"
    /\ Len(preprints) = 2
    /\ i > Len(preprints)
    /\ Len(db[group]) = 1
    /\ Len(not_updated) = 1
    /\ not_updated[1].reason = "rpf issue not in journals"

\* C25: the first request of retrieve() is at cursor 0 and each further one at the
\* cursor of the request before plus the count of its page (the sum of the counts
\* so far); a further request is made only after an 'ok' page whose total minus
\* its count is greater than zero; the list returned is the records of the items
\* of the pages, in the order of the requests.
C25_CursorAndStop ==
    [][ /\ (at = "retrieve" /\ trace'.op = "retrieve page") =>
              /\ requested' = Append(requested, cursor)
              /\ IF requested = <<>>
                 THEN cursor = 0
                 ELSE /\ Ok(trace.page)
                      /\ trace.page.message.total - trace.page.message.count > 0
                      /\ cursor = requested[Len(requested)] + trace.page.message.count
              /\ results' = results \o (IF Ok(trace'.page)
                                          THEN Records(trace'.page.collection) ELSE <<>>)
        /\ (at = "retrieve" /\ at' = "retrieved") => trace'.ret = results
      ]_vars

\* C25 witness: three requests, at the cursors 0, 2 and 3, and the three records
\* returned in the order of the listing
C25_Witness ==
    /\ at = "retrieved"
    /\ requested = <<0, 2, 3>>
    /\ Len(results) = 3
    /\ \A k \in 1..3 : results[k].biorxiv_doi = Item(k).biorxiv_doi

\* the DOI without its registrant prefix (up to and including the first '/') and
\* without the dots of its suffix
SuffixToken(cs) ==
    LET slash == CHOOSE k \in Positions(cs, "/") : \A m \in Positions(cs, "/") : k <= m
    IN  SelectSeq(SubSeq(cs, slash + 1, Len(cs)), LAMBDA c : c # ".")

\* C26: for the four journals of EMBO Press and every paper DOI, the link returned
\* (the candidate, when its probe found a PDF) is the download path with doi= the
\* DOI and file= the token followed by .reviewer_comments.pdf, where the token is
\* the DOI without its registrant prefix and without a dot - also when the suffix
\* of the DOI has no dot or two.
C26_GrammarA ==
    ( /\ trace.op = "generate_rpf_link"
      /\ strip_lower(trace.journal) \in AllowList \ {"life science alliance"}
      /\ trace.ret # "" )
    => trace.ret = "https://www.embopress.org/action/downloadSupplement?doi=" \o trace.doi
                   \o "&file=" \o Str(SuffixToken(Chars(trace.doi)))
                   \o ".reviewer_comments.pdf"

\* C27: when the page the DOI of a Life Science Alliance paper resolves to has no
\* volume/issue/eLocator in its URL, the turn of update() raises nothing, stores
\* nothing, records the preprint in not_updated with the reason 'rpf issue' and
\* goes on to the next one.
C27_UnresolvableIsSkipped ==
    [][ ( /\ pc = "update"
          /\ trace'.op = "update"
          /\ "resolve paper" \in trace'.calls
          /\ vol_issue_enumber(resolve(trace'.redirect)) = <<>> )
        => /\ trace'.raised = ""
           /\ db' = db
           /\ pc' = "update"
           /\ i' = i + 1
           /\ \E rsn \in {"rpf issue ", "rpf issue not in journals"} :
                 not_updated' = Append(not_updated, [doi |-> preprints[i].biorxiv_doi,
                                                     reason |-> rsn])
      ]_vars

\* C29: post_one is never called for a preprint whose document holds an id, in any
\* pass of any run on the group; and the turn of update() for such a preprint makes
\* no request, stores nothing and records it as 'pre-existing'.
C29_PublishedNeverResubmitted ==
    [][ /\ (pc = "post" /\ pc' = "posted") =>
              \A k \in EntriesOf(db[group], RowDoi) :
                  db[group][k].annotation.hypothesis_id = ""
        /\ ( /\ pc = "update"
              /\ trace'.op = "update"
              /\ \E k \in EntriesOf(db[group], preprints[i].biorxiv_doi) :
                    db[group][k].annotation.hypothesis_id # "" ) =>
              /\ trace'.calls = {}
              /\ ~ trace'.inserted
              /\ db' = db
              /\ not_updated' = Append(not_updated, [doi |-> preprints[i].biorxiv_doi,
                                                     reason |-> "pre-existing"])
      ]_vars

\* C29 witness: a later run posts the one document without id of a collection
\* whose other document was posted by an earlier run
C29_Witness ==
    /\ pc = "posted"
    /\ Len(db[group]) = 2
    /\ Len(rows) = 1
    /\ \E k \in 1..2 : db[group][k].annotation.hypothesis_id # ""
    /\ \A k \in EntriesOf(db[group], RowDoi) : db[group][k].annotation.hypothesis_id = ""

\* C30: for a preprint that passes the filter of update() (its link is non-empty and
\* its journal, as CrossRef names it, is in the list of the run), generate() finds a
\* banner for the journal and raises nothing, and the document is stored.
C30_BannerForPassingItems ==
    [][ ( /\ pc = "update"
          /\ trace'.op = "update"
          /\ trace'.paper # <<>>
          /\ trace'.paper[1].rpf # ""
          /\ InList(trace'.paper[1].journal, journals) )
        => /\ trace'.paper[1].journal \in DOMAIN banners
           /\ trace'.raised = ""
           /\ EntriesOf(db'[group], preprints[i].biorxiv_doi) # {}
      ]_vars

\* C28: whatever the interleaving of the requests of two workers that call insert
\* on the same collection, the collection holds exactly one document of a preprint
\* once an insert of that preprint has returned.
C28_AtomicInsert ==
    \A w \in Workers : \A doi \in workers[w].done :
        Cardinality(EntriesOf(db[WorkerGroup], doi)) = 1

====
